---- MODULE Spec2Model ----
(***************************************************************************)
(* Fixed-step 3D voxel cellular automaton of src/src/simulation.rs:        *)
(* packed voxel states, the birth/survival rule, chunk double buffering,   *)
(* the snapshot table, the fixed-step clock, the speed controller and the  *)
(* Morton key.                                                             *)
(*                                                                         *)
(* Numbers.  The f32 quantities are kept in fixed point:                   *)
(*   seconds      in units of 1/6000 s  (FIXED_STEP_SECONDS = 1/60 s = 100)*)
(*   factors      in thousandths        (1.0 = 1000)                       *)
(*   milliseconds in thousandths        (6.0 ms = 6000)                    *)
(* and a product or quotient is rounded down where f32 rounds to nearest.  *)
(* A u64 is the set of the positions of its 1 bits.                        *)
(***************************************************************************)
EXTENDS Integers, Sequences, FiniteSets, TLC

VARIABLES
    CHUNK_EDGE, \* the edge of a chunk in voxels, a constant of the program
    phase,      \* the system the schedule runs next: Tick, Snapshot, Step, Apply
    clock,      \* SimulationClock
    speed,      \* SimulationSpeed
    budget,     \* SimulationBudget
    rule,       \* AutomataRule
    chunks,     \* the chunk entities, in spawn order: [coords, cells, next]
    snapshots,  \* ChunkSnapshots.map : coords -> cells
    index,      \* ChunkIndex.entries : coords -> entity
    ticks,      \* number of ticks started
    pre,        \* history: the state when the current tick started
    log,        \* history: what the current tick did
    hist,       \* history: what the run did
    probe       \* inputs and results of the pure functions under test

vars == <<CHUNK_EDGE, phase, clock, speed, budget, rule, chunks, snapshots,
          index, ticks, pre, log, hist, probe>>

-----------------------------------------------------------------------------
(* Bounds of the model *)

\* Edge of a chunk in voxels (32 in the source, line 10; scaled down).
Edge == 2
\* Edge of the chunk that holds a cube of 3 x 3 x 3 voxels and a margin.
CubeEdge == 5
\* Number of chunk entities the host spawns.
MaxChunks == 2
\* Number of ticks of a run.
MaxTicks == 2
\* Number of ticks of a run of the clock alone.
MaxClockTicks == 3
\* Number of ticks of a long run of the speed controller, and the number of
\* its first ticks in which frame times and step costs are arbitrary.
MaxSpeedTicks == 32
FreeTicks == 2

-----------------------------------------------------------------------------
(* Helpers *)

Max(a, b) == IF a >= b THEN a ELSE b
Min(a, b) == IF a <= b THEN a ELSE b

RECURSIVE BitAnd(_, _)
\* a & b on naturals
BitAnd(a, b) ==
    IF a = 0 \/ b = 0 THEN 0
    ELSE (a % 2) * (b % 2) + 2 * BitAnd(a \div 2, b \div 2)

RECURSIVE BitOr(_, _)
\* a | b on naturals
BitOr(a, b) ==
    IF a = 0 THEN b
    ELSE IF b = 0 THEN a
    ELSE Max(a % 2, b % 2) + 2 * BitOr(a \div 2, b \div 2)

\* !a on a u8
BitNot8(a) == 255 - a

\* The permutations of 1..n, as sequences: the orders a query may iterate in.
Perms(n) == {p \in [1..n -> 1..n] : \A i, j \in 1..n : i # j => p[i] # p[j]}

Identity(n) == [k \in 1..n |-> k]

\* m with key k bound to v (HashMap::insert)
Insert(m, k, v) == [c \in DOMAIN m \cup {k} |-> IF c = k THEN v ELSE m[c]]

EmptyMap == [c \in {} |-> 0]

-----------------------------------------------------------------------------
(* Voxel State Codec: AutomataState, a u16 *)

\* crate::Flags::AUTOMATA_FLAG, defined outside simulation.rs: one bit of the
\* flags byte.
AUTOMATA_FLAG == 128

CHUNK_VOLUME == CHUNK_EDGE * CHUNK_EDGE * CHUNK_EDGE

\* Mutant: the flags are shifted by 7 bits, not 8.
from_components_shift7(m, f) == BitOr((f * 128) % 65536, m)

from_components(m, f) == BitOr((f * 256) % 65536, m)
from_packed(encoded) == encoded
to_packed(s) == s
material(s) == s % 256
flags(s) == (s \div 256) % 256
is_empty(s) == s = 0
is_solid(s) == material(s) # 0
is_alive(s) == BitAnd(flags(s), AUTOMATA_FLAG) # 0 /\ is_solid(s)
is_static(s) == is_solid(s) /\ ~is_alive(s)
with_material(s, m) == from_components(m, flags(s))
with_flags(s, f) == from_components(material(s), f)
to_components(s) == <<material(s), flags(s)>>
DefaultState == 0

-----------------------------------------------------------------------------
(* Rule Engine: AutomataRule *)

DefaultRule ==
    [birth |-> {5}, survive |-> {4, 5}, birth_material |-> 1,
     birth_flags |-> AUTOMATA_FLAG, inactive_state |-> DefaultState]

\* Mutant: the alive flag is not forced on.
alive_template_unforced(r) ==
    from_components(r.birth_material, r.birth_flags)

alive_template(r) ==
    from_components(r.birth_material, BitOr(r.birth_flags, AUTOMATA_FLAG))

\* Mutant: static voxels are not returned early.
next_state_no_static(r, current, neighbors) ==
    IF is_alive(current)
    THEN IF neighbors \in r.survive
         THEN LET f0 == BitOr(flags(current), AUTOMATA_FLAG)
                  f1 == BitOr(f0, BitAnd(r.birth_flags, BitNot8(AUTOMATA_FLAG)))
              IN  with_flags(current, f1)
         ELSE r.inactive_state
    ELSE IF neighbors \in r.birth
    THEN alive_template(r)
    ELSE r.inactive_state

\* Mutant: a surviving voxel is returned as it is.
next_state_keep(r, current, neighbors) ==
    IF is_static(current) THEN current
    ELSE IF is_alive(current)
    THEN IF neighbors \in r.survive THEN current ELSE r.inactive_state
    ELSE IF neighbors \in r.birth
    THEN alive_template(r)
    ELSE r.inactive_state

\* Mutant: the survival test is inverted.
next_state_inverted(r, current, neighbors) ==
    IF is_static(current) THEN current
    ELSE IF is_alive(current)
    THEN IF neighbors \notin r.survive
         THEN LET f0 == BitOr(flags(current), AUTOMATA_FLAG)
                  f1 == BitOr(f0, BitAnd(r.birth_flags, BitNot8(AUTOMATA_FLAG)))
              IN  with_flags(current, f1)
         ELSE r.inactive_state
    ELSE IF neighbors \in r.birth
    THEN alive_template(r)
    ELSE r.inactive_state

next_state(r, current, neighbors) ==
    IF is_static(current) THEN current
    ELSE IF is_alive(current)
    THEN IF neighbors \in r.survive
         THEN LET f0 == BitOr(flags(current), AUTOMATA_FLAG)
                  f1 == BitOr(f0, BitAnd(r.birth_flags, BitNot8(AUTOMATA_FLAG)))
              IN  with_flags(current, f1)
         ELSE r.inactive_state
    ELSE IF neighbors \in r.birth
    THEN alive_template(r)
    ELSE r.inactive_state

-----------------------------------------------------------------------------
(* Chunk storage and geometry.  An IVec3 is <<x, y, z>>; a voxel buffer is  *)
(* a function on 0..CHUNK_VOLUME-1, indexed by linear_index.               *)

Axis == 0..(CHUNK_EDGE - 1)
Locals == Axis \X Axis \X Axis
Cells == 0..(CHUNK_VOLUME - 1)

linear_index(local) ==
    local[1] * CHUNK_EDGE * CHUNK_EDGE + local[2] * CHUNK_EDGE + local[3]

\* The local coordinate pushed i-th by ChunkCells::from_generator
\* (x outer, y middle, z inner).
PushOrder(i) ==
    <<i \div (CHUNK_EDGE * CHUNK_EDGE), (i \div CHUNK_EDGE) % CHUNK_EDGE,
      i % CHUNK_EDGE>>

filled(value) == [i \in Cells |-> value]
zeros == [i \in Cells |-> DefaultState]

\* Mutant: the local coordinate wraps, the chunk coordinate stays.
WrapAxisSameChunk(c, l) ==
    IF l < 0 THEN <<c, l + CHUNK_EDGE>>
    ELSE IF l >= CHUNK_EDGE THEN <<c, l - CHUNK_EDGE>>
    ELSE <<c, l>>

\* One axis of sample_cell: <<chunk coordinate, local coordinate>>
WrapAxis(c, l) ==
    IF l < 0 THEN <<c - 1, l + CHUNK_EDGE>>
    ELSE IF l >= CHUNK_EDGE THEN <<c + 1, l - CHUNK_EDGE>>
    ELSE <<c, l>>

\* Some(state) is <<state>>, None is <<>>.
sample_cell(snaps, chunk_coords, local) ==
    LET wx == WrapAxis(chunk_coords[1], local[1])
        wy == WrapAxis(chunk_coords[2], local[2])
        wz == WrapAxis(chunk_coords[3], local[3])
        cc == <<wx[1], wy[1], wz[1]>>
        ll == <<wx[2], wy[2], wz[2]>>
    IN  IF cc \in DOMAIN snaps THEN <<snaps[cc][linear_index(ll)]>> ELSE <<>>

Offsets == ({-1, 0, 1} \X {-1, 0, 1} \X {-1, 0, 1}) \ {<<0, 0, 0>>}

Add3(a, b) == <<a[1] + b[1], a[2] + b[2], a[3] + b[3]>>

\* Mutant: the centre voxel is counted with its neighbours.
count_with_centre(snaps, chunk_coords, local) ==
    LET hit(d) ==
            LET v == sample_cell(snaps, chunk_coords, Add3(local, d))
            IN  v # <<>> /\ is_alive(v[1])
    IN  Min(Cardinality({d \in Offsets \cup {<<0, 0, 0>>} : hit(d)}), 255)

count_active_neighbors(snaps, chunk_coords, local) ==
    LET hit(d) ==
            LET v == sample_cell(snaps, chunk_coords, Add3(local, d))
            IN  v # <<>> /\ is_alive(v[1])
    IN  Min(Cardinality({d \in Offsets : hit(d)}), 255)

step_chunk(current_chunk, coords, snaps, r) ==
    [i \in Cells |->
        next_state(r, current_chunk[i],
                   count_active_neighbors(snaps, coords, PushOrder(i)))]

-----------------------------------------------------------------------------
(* Spatial key: morton_encode.  A u64 is the set of the positions (0..63)  *)
(* of its 1 bits.                                                          *)

MORTON_BIAS == 2^20

\* The u64 written as the hexadecimal digits ds, most significant first
HexBits(ds) ==
    {4 * (Len(ds) - k) + j : k \in 1..Len(ds), j \in 0..3} \cap
    {i \in 0..63 :
        LET k == Len(ds) - (i \div 4)
        IN  k >= 1 /\ (ds[k] \div (2^(i % 4))) % 2 = 1}

\* v as u64, for an i32 v with |v| < 2^30 (sign extension)
ToU64(v) ==
    IF v >= 0
    THEN {i \in 0..29 : (v \div (2^i)) % 2 = 1}
    ELSE {i \in 0..29 : ((v % (2^30)) \div (2^i)) % 2 = 1} \cup (30..63)

\* n << k on u64
Shl(n, k) == {i + k : i \in n} \cap (0..63)

part1by2(n0) ==
    LET n1 == n0 \cap HexBits(<<1, 15, 15, 15, 15, 15>>)
        n2 == (n1 \cup Shl(n1, 32))
                  \cap HexBits(<<1, 15, 0, 0, 0, 0, 0, 0, 0, 0, 15, 15, 15, 15>>)
        n3 == (n2 \cup Shl(n2, 16))
                  \cap HexBits(<<1, 15, 0, 0, 0, 0, 15, 15, 0, 0, 0, 0, 15, 15>>)
        n4 == (n3 \cup Shl(n3, 8))
                  \cap HexBits(<<1, 0, 0, 15, 0, 0, 15, 0, 0, 15, 0, 0, 15, 0,
                                 0, 15>>)
        n5 == (n4 \cup Shl(n4, 4))
                  \cap HexBits(<<1, 0, 12, 3, 0, 12, 3, 0, 12, 3, 0, 12, 3, 0,
                                 12, 3>>)
        n6 == (n5 \cup Shl(n5, 2))
                  \cap HexBits(<<1, 2, 4, 9, 2, 4, 9, 2, 4, 9, 2, 4, 9, 2, 4,
                                 9>>)
    IN  n6

\* Mutant: z is shifted by 1, as y is.
morton_encode_yz(coords) ==
    LET x == ToU64(coords[1] + MORTON_BIAS)
        y == ToU64(coords[2] + MORTON_BIAS)
        z == ToU64(coords[3] + MORTON_BIAS)
    IN  part1by2(x) \cup Shl(part1by2(y), 1) \cup Shl(part1by2(z), 1)

morton_encode(coords) ==
    LET x == ToU64(coords[1] + MORTON_BIAS)
        y == ToU64(coords[2] + MORTON_BIAS)
        z == ToU64(coords[3] + MORTON_BIAS)
    IN  part1by2(x) \cup Shl(part1by2(y), 1) \cup Shl(part1by2(z), 2)

-----------------------------------------------------------------------------
(* Snapshot table and chunk index *)

RECURSIVE rebuild(_, _)
\* ChunkSnapshots::rebuild / ChunkIndex::rebuild: clear, then insert the
\* entries (a sequence of <<coords, value>>) in order.  The first argument is
\* the map built so far, EmptyMap after the clear.
rebuild(m, entries) ==
    IF entries = <<>> THEN m
    ELSE rebuild(Insert(m, Head(entries)[1], Head(entries)[2]), Tail(entries))

-----------------------------------------------------------------------------
(* Fixed-step clock and speed controller *)

FIXED_STEP_SECONDS == 6000 \div 60

DefaultClock ==
    [accumulator |-> 0, steps_requested |-> 0, executed_step |-> FALSE]
DefaultSpeed == [factor |-> 1000, min_factor |-> 100, max_factor |-> 4000]
DefaultBudget == [target_ms |-> 6000, smoothing |-> 200, rolling_ms |-> 0]

\* Mutant: every whole step the accumulator holds is requested at once.
ClockTickDrain(c, factor, delta) ==
    LET acc == c.accumulator + (delta * factor) \div 1000
    IN  [accumulator |-> acc % FIXED_STEP_SECONDS,
         steps_requested |-> acc \div FIXED_STEP_SECONDS,
         executed_step |-> FALSE]

\* Mutant: the backlog left after a step is capped at one step.
ClockTickCapped(c, factor, delta) ==
    LET acc == c.accumulator + (delta * factor) \div 1000
    IN  IF acc >= FIXED_STEP_SECONDS
        THEN [accumulator |-> Min(acc - FIXED_STEP_SECONDS,
                                  FIXED_STEP_SECONDS),
              steps_requested |-> 1, executed_step |-> FALSE]
        ELSE [accumulator |-> acc, steps_requested |-> 0,
              executed_step |-> FALSE]

\* Mutant: the time in excess of the step is discarded.
ClockTickReset(c, factor, delta) ==
    LET acc == c.accumulator + (delta * factor) \div 1000
    IN  IF acc >= FIXED_STEP_SECONDS
        THEN [accumulator |-> 0, steps_requested |-> 1,
              executed_step |-> FALSE]
        ELSE [accumulator |-> acc, steps_requested |-> 0,
              executed_step |-> FALSE]

\* The clock after tick_simulation
ClockTick(c, factor, delta) ==
    LET acc == c.accumulator + (delta * factor) \div 1000
    IN  IF acc >= FIXED_STEP_SECONDS
        THEN [accumulator |-> acc - FIXED_STEP_SECONDS, steps_requested |-> 1,
              executed_step |-> FALSE]
        ELSE [accumulator |-> acc, steps_requested |-> 0,
              executed_step |-> FALSE]

\* Mutant: the average is not seeded by the first sample.
record_step_unseeded(b, elapsed_ms) ==
    [b EXCEPT !.rolling_ms =
         @ + (b.smoothing * (elapsed_ms - b.rolling_ms)) \div 1000]

record_step(b, elapsed_ms) ==
    IF b.rolling_ms = 0
    THEN [b EXCEPT !.rolling_ms = elapsed_ms]
    ELSE [b EXCEPT !.rolling_ms =
              @ + (b.smoothing * (elapsed_ms - b.rolling_ms)) \div 1000]

\* Mutant: the factor is not clamped.
apply_budget_feedback_unclamped(s, b) ==
    IF b.rolling_ms > b.target_ms
    THEN [s EXCEPT !.factor = (s.factor * 900) \div 1000]
    ELSE IF b.rolling_ms < (b.target_ms * 500) \div 1000
    THEN [s EXCEPT !.factor = (s.factor * 1050) \div 1000]
    ELSE s

apply_budget_feedback(s, b) ==
    IF b.rolling_ms > b.target_ms
    THEN [s EXCEPT !.factor = Max((s.factor * 900) \div 1000, s.min_factor)]
    ELSE IF b.rolling_ms < (b.target_ms * 500) \div 1000
    THEN [s EXCEPT !.factor = Min((s.factor * 1050) \div 1000, s.max_factor)]
    ELSE s

-----------------------------------------------------------------------------
(* The four systems.  A query iterates the entities in an order the code   *)
(* does not choose: order is a permutation of the entities.                *)

Entities == 1..Len(chunks)

\* snapshot_chunks, lines 484-487: the (coords, copy of cells) entries
SnapshotEntries(order, chs) ==
    [k \in 1..Len(order) |-> <<chs[order[k]].coords, chs[order[k]].cells>>]

IndexEntries(order, chs) ==
    [k \in 1..Len(order) |-> <<chs[order[k]].coords, order[k]>>]

RECURSIVE EvalInPlace(_, _, _, _)
\* Mutant: no double buffering, each result is visible to the chunks evaluated
\* after it.
EvalInPlace(order, chs, snaps, r) ==
    IF order = <<>> THEN <<>>
    ELSE LET e == Head(order)
             key == chs[e].coords
             buf == IF key \in DOMAIN snaps
                    THEN step_chunk(snaps[key], key, snaps, r)
                    ELSE step_chunk(chs[e].cells, key, snaps, r)
         IN  <<<<e, buf>>>> \o
             EvalInPlace(Tail(order), chs, Insert(snaps, key, buf), r)

\* step_chunks, lines 510-521: the (entity, buffer) results, in order
EvalChunks(order, chs, snaps, r) ==
    [k \in 1..Len(order) |->
        LET e == order[k]
            key == chs[e].coords
        IN  IF key \in DOMAIN snaps
            THEN <<e, step_chunk(snaps[key], key, snaps, r)>>
            ELSE <<e, step_chunk(chs[e].cells, key, snaps, r)>>]

\* Mutant: the k-th result goes to the k-th chunk, whatever its entity.
WriteResultsByPosition(chs, results) ==
    [e \in 1..Len(chs) |->
        IF e <= Len(results) THEN [chs[e] EXCEPT !.next = results[e][2]]
        ELSE chs[e]]

RECURSIVE WriteResults(_, _)
\* step_chunks, lines 523-527: copy each result into its entity's next buffer
WriteResults(chs, results) ==
    IF results = <<>> THEN chs
    ELSE WriteResults([chs EXCEPT ![Head(results)[1]].next = Head(results)[2]],
                      Tail(results))

\* Mutant: the buffers are swapped instead of copied.
CommitSwap(chs) ==
    [e \in 1..Len(chs) |->
        [chs[e] EXCEPT !.cells = chs[e].next, !.next = chs[e].cells]]

\* apply_next_cells, lines 544-546
CommitCells(chs) ==
    [e \in 1..Len(chs) |-> [chs[e] EXCEPT !.cells = chs[e].next]]

NoLog ==
    [delta |-> 0, requested |-> FALSE, stepped |-> FALSE, committed |-> FALSE,
     spawned |-> {}, elapsed |-> 0, at_snapshot |-> <<>>, at_step |-> <<>>,
     at_commit |-> <<>>, factor_before |-> 0, reordered |-> FALSE]

NoHist ==
    [steps |-> 0, all_above |-> TRUE, all_below |-> TRUE,
     prev_stepped |-> FALSE, spawned |-> <<>>, bounds_changed |-> FALSE,
     last_cost |-> 0]

Snap ==
    [chunks |-> chunks, snapshots |-> snapshots, index |-> index,
     clock |-> clock, speed |-> speed, budget |-> budget, rule |-> rule]

tick_simulation(delta) ==
    /\ phase = "Tick"
    /\ clock' = ClockTick(clock, speed.factor, delta)
    /\ phase' = "Snapshot"
    /\ ticks' = ticks + 1
    /\ pre' = Snap
    /\ log' = [NoLog EXCEPT !.delta = delta,
                            !.requested = (clock'.steps_requested = 1)]
    /\ hist' = [hist EXCEPT !.prev_stepped = log.stepped]
    /\ UNCHANGED CHUNK_EDGE
    /\ UNCHANGED <<speed, budget, rule, chunks, snapshots, index, probe>>

snapshot_chunks(order) ==
    /\ phase = "Snapshot"
    /\ phase' = "Step"
    /\ IF clock.steps_requested = 0
       THEN UNCHANGED <<snapshots, index, log>>
       ELSE /\ snapshots' = rebuild(EmptyMap, SnapshotEntries(order, chunks))
            /\ index' = rebuild(EmptyMap, IndexEntries(order, chunks))
            /\ log' = [log EXCEPT
                          !.at_snapshot = chunks,
                          !.reordered = (order # Identity(Len(chunks)))]
    /\ UNCHANGED CHUNK_EDGE
    /\ UNCHANGED <<clock, speed, budget, rule, chunks, ticks, pre, hist,
                   probe>>

step_chunks(order, elapsed_ms) ==
    /\ phase = "Step"
    /\ phase' = "Apply"
    /\ IF clock.steps_requested = 0
       THEN UNCHANGED <<clock, speed, budget, chunks, log, hist>>
       ELSE /\ chunks' = WriteResults(chunks,
                             EvalChunks(order, chunks, snapshots, rule))
            /\ budget' = record_step(budget, elapsed_ms)
            /\ speed' = apply_budget_feedback(speed, budget')
            /\ clock' = [clock EXCEPT !.steps_requested = 0,
                                      !.executed_step = TRUE]
            /\ log' = [log EXCEPT !.stepped = TRUE, !.elapsed = elapsed_ms,
                                  !.at_step = chunks,
                                  !.reordered =
                                      @ /\ order = Identity(Len(chunks)),
                                  !.factor_before = speed.factor]
            /\ hist' = [hist EXCEPT
                          !.steps = @ + 1,
                          !.last_cost = elapsed_ms,
                          !.all_above = @ /\ elapsed_ms > budget.target_ms,
                          !.all_below =
                              @ /\ 2 * elapsed_ms < budget.target_ms]
    /\ UNCHANGED CHUNK_EDGE
    /\ UNCHANGED <<rule, snapshots, index, ticks, pre, probe>>

\* Mutant: the commit is not gated by executed_step.
apply_ungated ==
    /\ phase = "Apply"
    /\ phase' = "Tick"
    /\ chunks' = CommitCells(chunks)
    /\ clock' = [clock EXCEPT !.executed_step = FALSE]
    /\ log' = [log EXCEPT !.committed = clock.executed_step,
                          !.at_commit = chunks]
    /\ UNCHANGED CHUNK_EDGE
    /\ UNCHANGED <<speed, budget, rule, snapshots, index, ticks, pre, hist,
                   probe>>

apply_next_cells ==
    /\ phase = "Apply"
    /\ phase' = "Tick"
    /\ IF ~clock.executed_step
       THEN UNCHANGED <<clock, chunks, log>>
       ELSE /\ chunks' = CommitCells(chunks)
            /\ clock' = [clock EXCEPT !.executed_step = FALSE]
            /\ log' = [log EXCEPT !.committed = TRUE, !.at_commit = chunks]
    /\ UNCHANGED CHUNK_EDGE
    /\ UNCHANGED <<speed, budget, rule, snapshots, index, ticks, pre, hist,
                   probe>>

-----------------------------------------------------------------------------------------------------------------------------------------------------
(* The host: it configures the rule before the first tick and spawns the   *)
(* chunks of its plan (ChunkBundle::from_generator).                       *)

Alive1 == from_components(1, AUTOMATA_FLAG)
Static2 == from_components(2, 0)
FlaggedEmpty == from_components(0, AUTOMATA_FLAG)
Last == CHUNK_EDGE - 1

\* The lowest coordinate of the cube of 3 x 3 x 3 voxels at the centre of a
\* chunk
CubeLo == (CHUNK_EDGE - 3) \div 2

\* The generator callbacks the host uses
Generate(g, local) ==
    CASE g = "corner" ->
           IF local = <<Last, Last, Last>> THEN Alive1 ELSE DefaultState
      [] g = "mixed" ->
           IF local[1] = Last THEN Alive1
           ELSE IF local[2] = 0 THEN Static2 ELSE FlaggedEmpty
      [] g = "cube" ->
           IF \A k \in 1..3 : local[k] \in CubeLo..(CubeLo + 2)
           THEN Alive1 ELSE DefaultState

from_generator(g) == [i \in Cells |-> Generate(g, PushOrder(i))]

\* The bundles the host may spawn, each once.  The third shares the first's
\* coordinates: nothing in the code keeps coordinates unique.
Plan ==
    {[coords |-> <<0, 0, 0>>, gen |-> "corner"],
     [coords |-> <<-1, 0, 0>>, gen |-> "mixed"],
     [coords |-> <<0, 0, 0>>, gen |-> "mixed"]}

OtherRule ==
    [birth |-> {1, 4}, survive |-> {3, 4}, birth_material |-> 3,
     birth_flags |-> 64, inactive_state |-> from_components(0, 64)]

Rules == {DefaultRule, OtherRule}

Spawned == {hist.spawned[e] : e \in 1..Len(hist.spawned)}

SpawnChunk(b) ==
    /\ Len(chunks) < MaxChunks
    /\ b \notin Spawned
    /\ chunks' = Append(chunks, [coords |-> b.coords,
                                 cells |-> from_generator(b.gen),
                                 next |-> zeros])
    /\ log' = [log EXCEPT !.spawned = @ \cup {Len(chunks) + 1}]
    /\ hist' = [hist EXCEPT !.spawned = Append(@, b)]
    /\ UNCHANGED CHUNK_EDGE
    /\ UNCHANGED <<phase, clock, speed, budget, rule, snapshots, index, ticks,
                   pre, probe>>

Deltas == {0, FIXED_STEP_SECONDS}
Costs == {7000}

Init ==
    /\ CHUNK_EDGE = Edge
    /\ phase = "Tick"
    /\ clock = DefaultClock
    /\ speed = DefaultSpeed
    /\ budget = DefaultBudget
    /\ rule \in Rules
    /\ chunks = <<>>
    /\ snapshots = EmptyMap
    /\ index = EmptyMap
    /\ ticks = 0
    /\ pre = Snap
    /\ log = NoLog
    /\ hist = NoHist
    /\ probe = <<>>

\* The host spawns chunks between ticks.
Next ==
    \/ \E d \in Deltas : ticks < MaxTicks /\ tick_simulation(d)
    \/ \E o \in Perms(Len(chunks)) : snapshot_chunks(o)
    \/ \E o \in Perms(Len(chunks)), ms \in Costs : step_chunks(o, ms)
    \/ apply_next_cells
    \/ \E b \in Plan : phase = "Tick" /\ SpawnChunk(b)

Spec == Init /\ [][Next]_vars

\* The host spawns chunks between any two systems.
NextMid ==
    \/ \E d \in Deltas : ticks < MaxTicks /\ tick_simulation(d)
    \/ \E o \in Perms(Len(chunks)) : snapshot_chunks(o)
    \/ \E o \in Perms(Len(chunks)), ms \in Costs : step_chunks(o, ms)
    \/ apply_next_cells
    \/ \E b \in Plan : SpawnChunk(b)

SpecMid == Init /\ [][NextMid]_vars

\* The host replaces the rule between ticks (AutomataRule is a resource with
\* public fields).
SetRule(r) ==
    /\ phase = "Tick"
    /\ r # rule
    /\ rule' = r
    /\ UNCHANGED CHUNK_EDGE
    /\ UNCHANGED <<phase, clock, speed, budget, chunks, snapshots, index,
                   ticks, pre, log, hist, probe>>

\* The host spawns chunks between any two systems and replaces the rule
\* between ticks.
NextStatic ==
    \/ \E d \in Deltas : ticks < MaxTicks /\ tick_simulation(d)
    \/ \E o \in Perms(Len(chunks)) : snapshot_chunks(o)
    \/ \E o \in Perms(Len(chunks)), ms \in Costs : step_chunks(o, ms)
    \/ apply_next_cells
    \/ \E b \in Plan : SpawnChunk(b)
    \/ \E r \in Rules : SetRule(r)

SpecStatic == Init /\ [][NextStatic]_vars

-----------------------------------------------------------------------------
(* The scenario of one isolated chunk that holds a cube of 3 x 3 x 3 alive *)
(* voxels at its centre, under the rule birth {5}, survive {4, 5}.         *)

CubeRules ==
    {[DefaultRule EXCEPT !.birth_material = m, !.inactive_state = i] :
        m \in {1, 3}, i \in {DefaultState, FlaggedEmpty, Static2}}

CubePlan == {[coords |-> c, gen |-> "cube"] : c \in {<<0, 0, 0>>, <<-1, 2, 0>>}}

InitCube ==
    /\ CHUNK_EDGE = CubeEdge
    /\ phase = "Tick"
    /\ clock = DefaultClock
    /\ speed = DefaultSpeed
    /\ budget = DefaultBudget
    /\ rule \in CubeRules
    /\ chunks = <<>>
    /\ snapshots = EmptyMap
    /\ index = EmptyMap
    /\ ticks = 0
    /\ pre = Snap
    /\ log = NoLog
    /\ hist = NoHist
    /\ probe = <<>>

NextCube ==
    \/ \E d \in Deltas : ticks < MaxTicks /\ tick_simulation(d)
    \/ snapshot_chunks(Identity(Len(chunks)))
    \/ \E ms \in Costs : step_chunks(Identity(Len(chunks)), ms)
    \/ apply_next_cells
    \/ \E b \in CubePlan : phase = "Tick" /\ chunks = <<>> /\ SpawnChunk(b)

SpecCube == InitCube /\ [][NextCube]_vars

-----------------------------------------------------------------------------
(* The clock and the speed controller under a host that feeds any frame    *)
(* time, measures any step cost and changes the speed bounds between       *)
(* ticks (the fields of SimulationSpeed are public).                       *)

ClockDeltas == {0, FIXED_STEP_SECONDS \div 2, (5 * FIXED_STEP_SECONDS) \div 2}
ClockCosts == {1000, 4000, 7000}
SpeedBounds ==
    {[min_factor |-> 100, max_factor |-> 4000],
     [min_factor |-> 1500, max_factor |-> 4000],
     [min_factor |-> 100, max_factor |-> 800]}

SetSpeedBounds(b) ==
    /\ phase = "Tick"
    /\ <<b.min_factor, b.max_factor>> # <<speed.min_factor, speed.max_factor>>
    /\ speed' = [speed EXCEPT !.min_factor = b.min_factor,
                              !.max_factor = b.max_factor]
    /\ hist' = [hist EXCEPT !.bounds_changed = TRUE]
    /\ UNCHANGED CHUNK_EDGE
    /\ UNCHANGED <<phase, clock, budget, rule, chunks, snapshots, index, ticks,
                   pre, log, probe>>

InitClock ==
    /\ CHUNK_EDGE = Edge
    /\ phase = "Tick"
    /\ clock = DefaultClock
    /\ speed = DefaultSpeed
    /\ budget = DefaultBudget
    /\ rule = DefaultRule
    /\ chunks = <<>>
    /\ snapshots = EmptyMap
    /\ index = EmptyMap
    /\ ticks = 0
    /\ pre = Snap
    /\ log = NoLog
    /\ hist = NoHist
    /\ probe = <<>>

NextClock ==
    \/ \E d \in ClockDeltas : ticks < MaxClockTicks /\ tick_simulation(d)
    \/ snapshot_chunks(Identity(Len(chunks)))
    \/ \E ms \in ClockCosts : step_chunks(Identity(Len(chunks)), ms)
    \/ apply_next_cells
    \/ \E b \in SpeedBounds : SetSpeedBounds(b)

SpecClock == InitClock /\ [][NextClock]_vars

-----------------------------------------------------------------------------
(* A long run of the speed controller from the default configuration, the  *)
(* bounds left alone.  In the first FreeTicks ticks the frame time and the *)
(* step cost are arbitrary; after them every frame is long enough for a    *)
(* step at the lowest factor and every step costs what the last one did.   *)

LongFrame == 10 * FIXED_STEP_SECONDS

NextSpeed ==
    \/ \E d \in ClockDeltas : ticks < FreeTicks /\ tick_simulation(d)
    \/ FreeTicks <= ticks /\ ticks < MaxSpeedTicks /\ tick_simulation(LongFrame)
    \/ snapshot_chunks(Identity(Len(chunks)))
    \/ \E ms \in ClockCosts :
           /\ ticks <= FreeTicks \/ hist.steps = 0
           /\ step_chunks(Identity(Len(chunks)), ms)
    \/ /\ ticks > FreeTicks /\ hist.steps > 0
       /\ step_chunks(Identity(Len(chunks)), hist.last_cost)
    \/ apply_next_cells

SpecSpeed == InitClock /\ [][NextSpeed]_vars

-----------------------------------------------------------------------------
(* The pure functions, applied to inputs drawn from bounded sets.  The     *)
(* systems do not run: the resources keep their initial values.            *)

Idle ==
    /\ CHUNK_EDGE = Edge
    /\ phase = "Tick"
    /\ clock = DefaultClock
    /\ speed = DefaultSpeed
    /\ budget = DefaultBudget
    /\ rule = DefaultRule
    /\ chunks = <<>>
    /\ snapshots = EmptyMap
    /\ index = EmptyMap
    /\ ticks = 0
    /\ pre = Snap
    /\ log = NoLog
    /\ hist = NoHist

sysvars == <<CHUNK_EDGE, phase, clock, speed, budget, rule, chunks, snapshots, index,
             ticks, pre, log, hist>>

\* next_state
ProbeStates ==
    {from_components(m, f) : m \in {0, 1, 2, 255},
                             f \in {0, 1, 64, AUTOMATA_FLAG,
                                    AUTOMATA_FLAG + 1, 255}}

ProbeRules ==
    {[birth |-> bs[1], survive |-> bs[2], birth_material |-> m,
      birth_flags |-> f, inactive_state |-> i] :
        bs \in {<<{5}, {4, 5}>>, <<{0, 26}, {}>>, <<{}, {0, 26}>>},
        m \in {0, 1, 3},
        f \in {0, 64, AUTOMATA_FLAG},
        i \in {DefaultState, Static2, Alive1, FlaggedEmpty}}

InitRule ==
    /\ Idle
    /\ probe \in [r : ProbeRules, s : ProbeStates,
                  n : 0..Cardinality(Offsets), out : {<<>>}]

ApplyRule ==
    /\ probe.out = <<>>
    /\ probe' = [probe EXCEPT !.out = <<next_state(probe.r, probe.s, probe.n)>>]
    /\ UNCHANGED sysvars

SpecRule == InitRule /\ [][ApplyRule]_vars

\* count_active_neighbors
ProbeGenerate(g, local) ==
    CASE g = "origin" -> IF local = <<0, 0, 0>> THEN Alive1 ELSE DefaultState
      [] g = "solid" -> Alive1
      [] OTHER -> Generate(g, local)

Cube(S) == S \X S \X S

\* The snapshot tables: one generator over a set of loaded coordinates, and
\* the table of tests::neighbor_lookup_crosses_chunk_boundary.
TestTable ==
    (<<0, 0, 0>> :> [i \in Cells |-> ProbeGenerate("corner", PushOrder(i))])
    @@ (<<1, 1, 1>> :> [i \in Cells |-> ProbeGenerate("origin", PushOrder(i))])

ProbeTables ==
    {[c \in D |-> [i \in Cells |-> ProbeGenerate(g, PushOrder(i))]] :
        D \in {{}, {<<0, 0, 0>>}, {<<0, 0, 0>>, <<-1, 0, 0>>},
               Cube({-1, 0}), Cube({0, 1}), Cube({-1, 0, 1}) \ {<<0, 0, 0>>}},
        g \in {"corner", "origin", "mixed", "solid"}}
    \cup {TestTable}

InitCount ==
    /\ Idle
    /\ probe \in [snaps : ProbeTables, c : Cube({-1, 0, 1}), l : Locals,
                  out : {<<>>}]

ApplyCount ==
    /\ probe.out = <<>>
    /\ probe' = [probe EXCEPT
                   !.out = <<count_active_neighbors(probe.snaps, probe.c,
                                                    probe.l)>>]
    /\ UNCHANGED sysvars

SpecCount == InitCount /\ [][ApplyCount]_vars

\* morton_encode: pairs of coordinates of the region of
\* tests::morton_keys_are_unique_for_local_region, and pairs of coordinates
\* at and next to the ends of the range the bias supports.
LocalRegion == Cube(-2..2)
EdgeRegion ==
    Cube({-MORTON_BIAS, -1, 0, MORTON_BIAS - 1, MORTON_BIAS})

InitMorton ==
    /\ Idle
    /\ probe \in [a : LocalRegion, b : LocalRegion, out : {<<>>}]
                 \cup [a : EdgeRegion, b : EdgeRegion, out : {<<>>}]

ApplyMorton ==
    /\ probe.out = <<>>
    /\ probe' = [probe EXCEPT
                   !.out = <<morton_encode(probe.a), morton_encode(probe.b)>>]
    /\ UNCHANGED sysvars

SpecMorton == InitMorton /\ [][ApplyMorton]_vars

\* The codec: every material byte and flags byte, and with them every
\* 16-bit value (flags byte high, material byte low).
Bytes == 0..255

InitCodec ==
    /\ Idle
    /\ \E m \in Bytes, f \in Bytes :
           probe = [m |-> m, f |-> f, v |-> f * 256 + m, out |-> <<>>]

ApplyCodec ==
    /\ probe.out = <<>>
    /\ probe' = [probe EXCEPT !.out =
           <<to_components(from_components(probe.m, probe.f)),
             to_packed(from_components(probe.m, probe.f)),
             to_packed(from_packed(probe.v)),
             to_components(from_packed(probe.v))>>]
    /\ UNCHANGED sysvars

SpecCodec == InitCodec /\ [][ApplyCodec]_vars

-----------------------------------------------------------------------------
(* Properties of a tick *)

DistinctCoords(chs) ==
    \A e, f \in 1..Len(chs) : e # f => chs[e].coords # chs[f].coords

\* World position of a voxel, and the chunk and local coordinate of a world
\* position (floor division).
WorldPos(coords, local) ==
    <<coords[1] * CHUNK_EDGE + local[1], coords[2] * CHUNK_EDGE + local[2],
      coords[3] * CHUNK_EDGE + local[3]>>
ChunkOf(p) ==
    <<p[1] \div CHUNK_EDGE, p[2] \div CHUNK_EDGE, p[3] \div CHUNK_EDGE>>
LocalOf(p) == <<p[1] % CHUNK_EDGE, p[2] % CHUNK_EDGE, p[3] % CHUNK_EDGE>>

\* A loaded chunk of chs holds an alive voxel at world position p.
WorldAlive(chs, p) ==
    \E e \in 1..Len(chs) :
        /\ chs[e].coords = ChunkOf(p)
        /\ is_alive(chs[e].cells[linear_index(LocalOf(p))])

\* Alive voxels among the 26 world-space neighbours of p
WorldCount(chs, p) == Cardinality({d \in Offsets : WorldAlive(chs, Add3(p, d))})

TickDone == phase = "Tick" /\ ticks > 0

\* C1. Step gating: in a tick whose clock phase requested no step, in every
\* phase and after the tick, every chunk's current and next buffer, the
\* snapshot table, the speed factor and the rolling cost are what they were
\* when the tick started.
StepGating ==
    (ticks > 0 /\ ~log.requested) =>
        /\ \A e \in 1..Len(pre.chunks) :
               /\ chunks[e].cells = pre.chunks[e].cells
               /\ chunks[e].next = pre.chunks[e].next
        /\ snapshots = pre.snapshots
        /\ speed.factor = pre.speed.factor
        /\ budget.rolling_ms = pre.budget.rolling_ms

\* A tick without a step has ended, right after a tick that executed a step,
\* with a chunk whose next buffer differs from its current buffer.
StepGatingWitness ==
    /\ TickDone
    /\ ~log.requested
    /\ hist.prev_stepped
    /\ \E e \in 1..Len(pre.chunks) : chunks[e].next # chunks[e].cells

\* C2. Commit atomicity: after a tick that executed a step, the commit has
\* run, every chunk's current buffer equals the next buffer it held right
\* before the commit, and the next buffers are unchanged.
CommitAtomicity ==
    (TickDone /\ log.stepped) =>
        /\ log.committed
        /\ ~clock.executed_step
        /\ \A e \in 1..Len(log.at_commit) :
               /\ chunks[e].cells = log.at_commit[e].next
               /\ chunks[e].next = log.at_commit[e].next

\* A commit over two chunks that changed a current buffer.
CommitWitness ==
    /\ TickDone
    /\ log.committed
    /\ Len(log.at_commit) >= 2
    /\ \E e \in 1..Len(log.at_commit) :
           log.at_commit[e].cells # log.at_commit[e].next

\* The voxel-wise synchronous update of the world chs0 under rule r.
Synchronous(chs0, r, e, i) ==
    next_state(r, chs0[e].cells[i],
               WorldCount(chs0, WorldPos(chs0[e].coords, PushOrder(i))))

\* C3 as stated: after a tick that executed a step and spawned no chunk,
\* every voxel is next_state(its pre-tick state, its pre-tick alive world
\* neighbours).
SynchronousStepAnyWorld ==
    (TickDone /\ log.committed /\ log.spawned = {}) =>
        \A e \in 1..Len(pre.chunks), i \in Cells :
            chunks[e].cells[i] = Synchronous(pre.chunks, pre.rule, e, i)

\* C3, amended: the same when the loaded chunks have pairwise distinct
\* coordinates.
SynchronousStep ==
    (TickDone /\ log.committed /\ log.spawned = {}
        /\ DistinctCoords(pre.chunks)) =>
        \A e \in 1..Len(pre.chunks), i \in Cells :
            chunks[e].cells[i] = Synchronous(pre.chunks, pre.rule, e, i)

\* A step over two adjacent chunks in which a voxel was born from alive
\* neighbours of the other chunk.
SynchronousWitness ==
    /\ TickDone /\ log.committed /\ log.spawned = {}
    /\ Len(pre.chunks) = 2
    /\ DistinctCoords(pre.chunks)
    /\ \E e \in 1..2, i \in Cells :
           /\ ~is_alive(pre.chunks[e].cells[i])
           /\ is_alive(chunks[e].cells[i])
           /\ count_active_neighbors(
                  rebuild(EmptyMap,
                          SnapshotEntries(<<e>>, pre.chunks)),
                  pre.chunks[e].coords, PushOrder(i))
                < WorldCount(pre.chunks,
                             WorldPos(pre.chunks[e].coords, PushOrder(i)))

\* The next buffers of an evaluation that iterates in spawn order, in the
\* snapshot phase (over chs0) and in the evaluation phase (over chs1).
InOrderNext(chs0, chs1, r) ==
    LET snaps == rebuild(EmptyMap, SnapshotEntries(Identity(Len(chs0)), chs0))
    IN  WriteResults(chs1, EvalChunks(Identity(Len(chs1)), chs1, snaps, r))

\* C4 as stated: whatever orders the snapshot and the evaluation phase
\* iterated in, the next buffers after evaluation (the current buffers after
\* commit) are those of the iteration in spawn order.
OrderIndependenceAnyWorld ==
    log.stepped =>
        LET canon == InOrderNext(log.at_snapshot, log.at_step, rule)
        IN  \A e \in 1..Len(log.at_step) :
                /\ ~log.committed => chunks[e].next = canon[e].next
                /\ log.committed => chunks[e].cells = canon[e].next

\* C4, amended: the same when the loaded chunks have pairwise distinct
\* coordinates.
OrderIndependence ==
    (log.stepped /\ DistinctCoords(log.at_step)) =>
        LET canon == InOrderNext(log.at_snapshot, log.at_step, rule)
        IN  \A e \in 1..Len(log.at_step) :
                /\ ~log.committed => chunks[e].next = canon[e].next
                /\ log.committed => chunks[e].cells = canon[e].next

\* Two chunks with distinct coordinates were snapshotted last-spawned first
\* and evaluated first-spawned first, and an evaluation changed a voxel.
OrderWitness ==
    /\ log.stepped /\ ~log.committed
    /\ Len(log.at_step) = 2
    /\ DistinctCoords(log.at_step)
    /\ log.reordered
    /\ \E e \in 1..2 : chunks[e].next # chunks[e].cells

-----------------------------------------------------------------------------
(* Properties of the clock and of the speed controller *)

\* The accumulator of the current tick after adding delta * factor
Accumulated ==
    pre.clock.accumulator + (log.delta * pre.speed.factor) \div 1000

\* C5. At most one step per tick: steps_requested is 0 or 1; after the clock
\* phase it is 1 exactly when the accumulator after adding delta * factor is
\* at least FIXED_STEP, exactly one FIXED_STEP is then subtracted; no more
\* steps execute than ticks start.
AtMostOneStep ==
    /\ clock.steps_requested \in {0, 1}
    /\ hist.steps <= ticks
    /\ (ticks > 0 /\ phase = "Snapshot") =>
           /\ clock.steps_requested = 1 <=> Accumulated >= FIXED_STEP_SECONDS
           /\ clock.accumulator =
                  IF clock.steps_requested = 1
                  THEN Accumulated - FIXED_STEP_SECONDS
                  ELSE Accumulated

\* The clock phase requested one step while the accumulator held more than
\* two steps' worth of time, under a speed factor other than 1.
AtMostOneStepWitness ==
    /\ phase = "Snapshot"
    /\ clock.steps_requested = 1
    /\ Accumulated >= 2 * FIXED_STEP_SECONDS
    /\ speed.factor # 1000

\* C6 as stated: after a tick whose clock phase requested a step the
\* accumulator is in [0, FIXED_STEP).
AccumulatorBelowStep ==
    (TickDone /\ log.requested) =>
        (0 <= clock.accumulator /\ clock.accumulator < FIXED_STEP_SECONDS)

\* C6, amended: after a tick whose clock phase requested a step the
\* accumulator a is the accumulated time less one FIXED_STEP, 0 <= a, and
\* a < FIXED_STEP exactly when the accumulated time was below two steps.
AccumulatorAfterStep ==
    (TickDone /\ log.requested) =>
        /\ 0 <= clock.accumulator
        /\ clock.accumulator = Accumulated - FIXED_STEP_SECONDS
        /\ clock.accumulator < FIXED_STEP_SECONDS
               <=> Accumulated < 2 * FIXED_STEP_SECONDS

\* A tick that requested a step has ended and left a whole step of backlog.
AccumulatorWitness ==
    /\ TickDone
    /\ log.requested
    /\ log.stepped
    /\ clock.accumulator >= FIXED_STEP_SECONDS

\* C17. Excess time is retained and drained: a tick that starts with at
\* least one FIXED_STEP in the accumulator requests a step, for any delta,
\* the evaluation phase executes it, and the accumulator loses exactly one
\* FIXED_STEP of the accumulated time.
BacklogDrained ==
    (ticks > 0 /\ pre.clock.accumulator >= FIXED_STEP_SECONDS) =>
        /\ log.requested
        /\ phase \in {"Apply", "Tick"} => log.stepped
        /\ clock.accumulator = Accumulated - FIXED_STEP_SECONDS
        /\ clock.accumulator >= pre.clock.accumulator - FIXED_STEP_SECONDS

\* A backlog of two steps was left by two long frames; the tick after them
\* had delta 0, executed a step and left a backlog of at least one step.
BacklogWitness ==
    /\ TickDone
    /\ pre.clock.accumulator >= 2 * FIXED_STEP_SECONDS
    /\ log.delta = 0
    /\ log.stepped
    /\ hist.prev_stepped
    /\ clock.accumulator = pre.clock.accumulator - FIXED_STEP_SECONDS
    /\ clock.accumulator >= FIXED_STEP_SECONDS

JustStepped == phase = "Apply" /\ log.stepped

FactorInBounds(f) ==
    0 <= speed.min_factor /\ speed.min_factor <= f /\ f <= speed.max_factor

\* C7 as stated: while every measured cost is above the target a step never
\* raises the factor and leaves it at least min_factor; while every measured
\* cost is below half the target a step never lowers the factor and leaves
\* it at most max_factor.
SpeedConvergenceAnyBounds ==
    JustStepped =>
        /\ hist.all_above =>
               /\ speed.factor <= log.factor_before
               /\ speed.factor >= speed.min_factor
        /\ hist.all_below =>
               /\ speed.factor >= log.factor_before
               /\ speed.factor <= speed.max_factor

\* C7, amended: the same for a step before which
\* 0 <= min_factor <= factor <= max_factor.
SpeedConvergence ==
    (JustStepped /\ FactorInBounds(log.factor_before)) =>
        /\ hist.all_above =>
               /\ speed.factor <= log.factor_before
               /\ speed.factor >= speed.min_factor
        /\ hist.all_below =>
               /\ speed.factor >= log.factor_before
               /\ speed.factor <= speed.max_factor

\* The second of two steps that both cost more than the target lowered a
\* factor that was within its bounds.
SpeedConvergenceWitness ==
    /\ JustStepped
    /\ hist.all_above
    /\ hist.steps >= 2
    /\ FactorInBounds(log.factor_before)
    /\ speed.factor < log.factor_before
    /\ log.factor_before < 1000

\* C21. The speed factor stays within its bounds: from the default
\* configuration with the bounds left alone, min_factor <= factor <=
\* max_factor in every state; the factor changes only in a tick that executed
\* a step, to no less than 0.9 and no more than 1.05 times what it was, and
\* not at all when the rolling cost is between half the target and the target.
FactorWithinBounds ==
    /\ speed.min_factor = DefaultSpeed.min_factor
    /\ speed.max_factor = DefaultSpeed.max_factor
    /\ speed.min_factor <= speed.factor /\ speed.factor <= speed.max_factor
    /\ ticks = 0 => speed.factor = DefaultSpeed.factor
    /\ (ticks > 0 /\ ~log.stepped) => speed.factor = pre.speed.factor
    /\ (ticks > 0 /\ log.stepped) =>
           /\ (pre.speed.factor * 900) \div 1000 <= speed.factor
           /\ speed.factor <= (pre.speed.factor * 1050) \div 1000
           /\ speed.factor \in
                  {pre.speed.factor,
                   Max((pre.speed.factor * 900) \div 1000, speed.min_factor),
                   Min((pre.speed.factor * 1050) \div 1000, speed.max_factor)}
           /\ (budget.target_ms <= 2 * budget.rolling_ms
                  /\ budget.rolling_ms <= budget.target_ms) =>
                  speed.factor = pre.speed.factor

\* A step whose rolling cost was above the target found the factor less than
\* one multiplication above min_factor and left it at min_factor.
FactorWitness ==
    /\ JustStepped
    /\ budget.rolling_ms > budget.target_ms
    /\ log.factor_before > speed.min_factor
    /\ (log.factor_before * 900) \div 1000 < speed.min_factor
    /\ speed.factor = speed.min_factor

-----------------------------------------------------------------------------
(* Properties of the pure functions *)

\* C8. Static immutability: for a state with material # 0 and the automata
\* flag clear, next_state returns the state itself, for every neighbour count
\* in 0..26 and every rule.
StaticImmutability ==
    (probe.out # <<>> /\ probe.s % 256 # 0
        /\ BitAnd(probe.s \div 256, AUTOMATA_FLAG) = 0) =>
        probe.out[1] = probe.s

\* next_state was applied to a static voxel that carries flags, with a
\* neighbour count in the birth set and an inactive state other than it.
StaticWitness ==
    /\ probe.out # <<>>
    /\ is_static(probe.s)
    /\ probe.s \div 256 # 0
    /\ probe.n = Cardinality(Offsets)
    /\ probe.n \in probe.r.birth
    /\ probe.r.inactive_state # probe.s
    /\ alive_template(probe.r) # probe.s

\* C13. Survival and death: for an alive voxel (automata flag set, material
\* # 0), with a neighbour count in the survival set next_state is alive, has
\* the same material and the flags flags(s) OR birth_flags; with any other
\* count it is inactive_state.
SurvivalAndDeath ==
    (probe.out # <<>> /\ probe.s % 256 # 0
        /\ BitAnd(probe.s \div 256, AUTOMATA_FLAG) # 0) =>
        IF probe.n \in probe.r.survive
        THEN /\ is_alive(probe.out[1])
             /\ probe.out[1] % 256 = probe.s % 256
             /\ probe.out[1] \div 256
                    = BitOr(probe.s \div 256, probe.r.birth_flags)
        ELSE probe.out[1] = probe.r.inactive_state

\* An alive voxel with an auxiliary flag survived under a rule with another
\* auxiliary birth flag and has both.
SurvivalWitness ==
    /\ probe.out # <<>>
    /\ probe.s = from_components(255, AUTOMATA_FLAG + 1)
    /\ probe.n \in probe.r.survive
    /\ probe.r.birth_flags = 64
    /\ probe.r.inactive_state # probe.s
    /\ probe.out[1] = from_components(255, AUTOMATA_FLAG + 65)

\* C14 as stated: for a voxel of material 0, with a neighbour count in the
\* birth set next_state is alive and has the birth material and the birth
\* flags with the alive flag on, for every rule; with any other count it is
\* inactive_state.
BirthAnyRule ==
    (probe.out # <<>> /\ probe.s % 256 = 0) =>
        IF probe.n \in probe.r.birth
        THEN /\ is_alive(probe.out[1])
             /\ probe.out[1] % 256 = probe.r.birth_material
             /\ probe.out[1] \div 256
                    = BitOr(probe.r.birth_flags, AUTOMATA_FLAG)
        ELSE probe.out[1] = probe.r.inactive_state

\* C14, amended: the same, the result being alive when birth_material # 0
\* and not alive when birth_material = 0.
Birth ==
    (probe.out # <<>> /\ probe.s % 256 = 0) =>
        IF probe.n \in probe.r.birth
        THEN /\ is_alive(probe.out[1]) <=> probe.r.birth_material # 0
             /\ probe.out[1] % 256 = probe.r.birth_material
             /\ probe.out[1] \div 256
                    = BitOr(probe.r.birth_flags, AUTOMATA_FLAG)
        ELSE probe.out[1] = probe.r.inactive_state

\* A voxel of material 0 that carries the automata flag was born under a
\* rule whose birth flags lack the alive flag, and is alive.
BirthWitness ==
    /\ probe.out # <<>>
    /\ probe.s = FlaggedEmpty
    /\ probe.n \in probe.r.birth
    /\ probe.r.birth_flags = 64
    /\ probe.r.birth_material = 3
    /\ probe.out[1] = from_components(3, AUTOMATA_FLAG + 64)
    /\ is_alive(probe.out[1])

\* The alive voxels among the 26 world positions around voxel l of chunk c,
\* each looked up in the snapshot of the chunk that contains it.
WorldNeighbours(snaps, c, l) ==
    {d \in Offsets :
        LET p == Add3(WorldPos(c, l), d)
        IN  /\ ChunkOf(p) \in DOMAIN snaps
            /\ is_alive(snaps[ChunkOf(p)][linear_index(LocalOf(p))])}

\* C9. Cross-boundary neighbour counting: count_active_neighbors is the
\* number of alive voxels among the 26 world positions around the voxel,
\* positions in chunks without a snapshot counting 0; it is in 0..26; and it
\* is 1 for the far corner of chunk (0,0,0) of the test's table.
NeighbourCount ==
    probe.out # <<>> =>
        /\ probe.out[1] =
               Cardinality(WorldNeighbours(probe.snaps, probe.c, probe.l))
        /\ probe.out[1] \in 0..26
        /\ (probe.snaps = TestTable /\ probe.c = <<0, 0, 0>>
               /\ probe.l = <<Last, Last, Last>>) => probe.out[1] = 1

\* The neighbours of a voxel of a chunk without a snapshot were counted:
\* some are alive, in chunks on both sides of it, and others lie in further
\* chunks without a snapshot.
NeighbourWitness ==
    /\ probe.out # <<>>
    /\ probe.c \notin DOMAIN probe.snaps
    /\ probe.out[1] > 0
    /\ probe.out[1] < Cardinality(Offsets)
    /\ \E d, f \in WorldNeighbours(probe.snaps, probe.c, probe.l) :
           /\ ChunkOf(Add3(WorldPos(probe.c, probe.l), d))[1] < probe.c[1]
           /\ ChunkOf(Add3(WorldPos(probe.c, probe.l), f))[3] > probe.c[3]

\* C10 as stated: two distinct coordinates with every axis within
\* -2^20..2^20 have different keys.
KeyInjectivityClosedRange ==
    (probe.out # <<>> /\ probe.a # probe.b
        /\ \A k \in 1..3 :
               /\ -MORTON_BIAS <= probe.a[k] /\ probe.a[k] <= MORTON_BIAS
               /\ -MORTON_BIAS <= probe.b[k] /\ probe.b[k] <= MORTON_BIAS) =>
        probe.out[1] # probe.out[2]

\* C10, amended: two distinct coordinates with every axis within
\* -2^20..2^20-1 have different keys (so the 125 coordinates of [-2,2]^3
\* have 125 keys).
KeyInjectivity ==
    (probe.out # <<>> /\ probe.a # probe.b
        /\ \A k \in 1..3 :
               /\ -MORTON_BIAS <= probe.a[k] /\ probe.a[k] < MORTON_BIAS
               /\ -MORTON_BIAS <= probe.b[k] /\ probe.b[k] < MORTON_BIAS) =>
        probe.out[1] # probe.out[2]

\* The keys of the two ends of the supported range were computed: they
\* differ, and the larger coordinate sets bit 62, the highest bit of a key.
KeyWitness ==
    /\ probe.out # <<>>
    /\ probe.a = <<-MORTON_BIAS, -MORTON_BIAS, -MORTON_BIAS>>
    /\ probe.b = <<MORTON_BIAS - 1, MORTON_BIAS - 1, MORTON_BIAS - 1>>
    /\ probe.out[1] = {}
    /\ probe.out[2] = 0..62

\* C11. Codec round-trip: to_components(from_components(m, f)) = (m, f) for
\* every two bytes; to_packed(from_packed(v)) = v for every 16-bit value;
\* the material is the low byte and the flags the high byte of the packed
\* value.
CodecRoundTrip ==
    probe.out # <<>> =>
        /\ probe.out[1] = <<probe.m, probe.f>>
        /\ probe.out[2] = probe.f * 256 + probe.m
        /\ probe.out[3] = probe.v
        /\ probe.out[4] = <<probe.v % 256, probe.v \div 256>>

\* The codec was applied to two bytes that both have their high bit set and
\* differ.
CodecWitness ==
    /\ probe.out # <<>>
    /\ probe.m = 255
    /\ probe.f = AUTOMATA_FLAG
    /\ probe.out[2] = 33023

\* C16. Did-step signal: from the evaluation phase that executes a step to
\* the clock phase of the next tick executed_step is true, the commit phase
\* included; at any other time it is false.
DidStepSignal == clock.executed_step <=> log.stepped

\* What the evaluation phase computes for chunk e of chs
OwnResult(chs, e) ==
    step_chunk(IF chs[e].coords \in DOMAIN snapshots
               THEN snapshots[chs[e].coords] ELSE chs[e].cells,
               chs[e].coords, snapshots, rule)

\* C18. Double-buffer frame: the clock, snapshot and evaluation phases leave
\* every current buffer as it is; a current buffer changes only in the commit
\* phase of a tick in which a step executed; a next buffer changes only in an
\* evaluation phase that executes a step, to the chunk's own result.
DoubleBufferFrame ==
    [][\A e \in 1..Len(chunks) :
          /\ phase \in {"Tick", "Snapshot", "Step"} =>
                 chunks'[e].cells = chunks[e].cells
          /\ chunks'[e].cells # chunks[e].cells =>
                 (phase = "Apply" /\ clock.executed_step /\ log.stepped)
          /\ chunks'[e].next # chunks[e].next =>
                 /\ phase = "Step" /\ clock.steps_requested = 1
                 /\ chunks'[e].next = OwnResult(chunks, e)]_vars

\* The evaluation phase, iterating over two chunks out of spawn order, has
\* written both next buffers and left both current buffers as the tick found
\* them.
DoubleBufferWitness ==
    /\ phase = "Apply" /\ log.stepped
    /\ Len(pre.chunks) = 2
    /\ log.reordered
    /\ \A e \in 1..2 :
           /\ chunks[e].cells = pre.chunks[e].cells
           /\ chunks[e].next # pre.chunks[e].next
           /\ chunks[e].next # chunks[e].cells

-----------------------------------------------------------------------------
(* Properties of a tick in which the host spawns chunks between systems *)

\* C15. Fallback for a chunk without a snapshot: after the evaluation phase
\* the next buffer of a chunk whose coordinates have no entry in the snapshot
\* table is what step_chunk writes from a table that also holds the chunk's
\* live current buffer under its coordinates.
FallbackUsesLiveBuffer ==
    (phase = "Apply" /\ log.stepped) =>
        \A e \in 1..Len(log.at_step) :
            LET c == log.at_step[e]
            IN  c.coords \notin DOMAIN snapshots =>
                    chunks[e].next =
                        step_chunk(c.cells, c.coords,
                                   Insert(snapshots, c.coords, c.cells), rule)

\* C19. Static geometry is permanent: while the loaded chunks have pairwise
\* distinct coordinates, no step of the system changes a voxel that is static
\* in a current buffer, whatever the rule in force.
StaticPermanence ==
    [][DistinctCoords(chunks) =>
          \A e \in 1..Len(chunks), i \in Cells :
              is_static(chunks[e].cells[i]) =>
                  chunks'[e].cells[i] = chunks[e].cells[i]]_vars

\* C20. Commit touches only evaluated chunks: after the commit of a tick, a
\* chunk spawned after the evaluation phase of that tick and before its
\* commit has the current buffer its generator gave it.
CommitSparesNewChunks ==
    (TickDone /\ log.committed) =>
        \A e \in (Len(log.at_step) + 1)..Len(log.at_commit) :
            chunks[e].cells = from_generator(hist.spawned[e].gen)

-----------------------------------------------------------------------------
(* Properties of the cube scenario *)

\* The world is one chunk that is empty except for the cube at its centre.
IsCube(chs) == Len(chs) = 1 /\ chs[1].cells = from_generator("cube")

CubeCentre == <<CubeLo + 1, CubeLo + 1, CubeLo + 1>>
CubeCorners == Cube({CubeLo, CubeLo + 2})

\* C12. End-to-end scenario: after one executed step over the cube under
\* birth {5}, survive {4, 5}, the centre voxel and the 8 corner voxels of
\* the cube hold inactive_state, and every voxel that was empty and had
\* exactly 5 alive neighbours holds the born state, which is alive; every
\* other voxel of the chunk holds inactive_state.
CubeScenario ==
    (TickDone /\ log.committed /\ IsCube(pre.chunks)
        /\ pre.rule.birth = {5} /\ pre.rule.survive = {4, 5}) =>
        LET now == chunks[1].cells
            was == pre.chunks[1].cells
            at  == pre.chunks[1].coords
        IN  /\ now[linear_index(CubeCentre)] = pre.rule.inactive_state
            /\ \A l \in CubeCorners :
                   now[linear_index(l)] = pre.rule.inactive_state
            /\ \A l \in Locals :
                   (is_empty(was[linear_index(l)])
                       /\ WorldCount(pre.chunks, WorldPos(at, l)) = 5) =>
                       /\ now[linear_index(l)] = alive_template(pre.rule)
                       /\ is_alive(now[linear_index(l)])
            /\ \A l \in Locals :
                   ~(is_empty(was[linear_index(l)])
                       /\ WorldCount(pre.chunks, WorldPos(at, l)) = 5) =>
                       now[linear_index(l)] = pre.rule.inactive_state

\* A step ran over the cube: its centre had 26 alive neighbours, its corners
\* 7, empty voxels around it had alive neighbours, and the centre now holds
\* an inactive state other than the default one.
CubeWitness ==
    /\ TickDone /\ log.committed /\ IsCube(pre.chunks)
    /\ WorldCount(pre.chunks, WorldPos(pre.chunks[1].coords, CubeCentre)) = 26
    /\ \A l \in CubeCorners :
           WorldCount(pre.chunks, WorldPos(pre.chunks[1].coords, l)) = 7
    /\ \E l \in Locals :
           /\ is_empty(pre.chunks[1].cells[linear_index(l)])
           /\ WorldCount(pre.chunks, WorldPos(pre.chunks[1].coords, l)) = 9
    /\ chunks[1].cells[linear_index(CubeCentre)] = FlaggedEmpty

====
